---- MODULE Spec2Model ----
(***************************************************************************)
(* Model of the Divination chat adapter: the request orchestrator          *)
(* sendMessage (scripts/api.js), the history helper truncateMessageHistory *)
(* (scripts/utils.js) and the chat front end DivinationChat                *)
(* (scripts/chat.js).                                                      *)
(*                                                                         *)
(* Text is modelled as a sequence of one-character strings, so that        *)
(* String.prototype.includes, trim and split are computed, not assumed.    *)
(* A JavaScript array is modelled by its contents; the one aliasing that   *)
(* matters (sendMessage's local `messages` is the caller's array until     *)
(* truncateMessageHistory returns a fresh one) is kept as a flag.          *)
(*                                                                         *)
(* Specifications: Spec (a caller of sendMessage that waits for each call),*)
(* SpecLive (the same with fair fetches and timer), SpecSettings (the       *)
(* settings change while a call is in flight), SpecChat (the chat window), *)
(* SpecContext (the chat window with context items), SpecTrunc             *)
(* (truncateMessageHistory alone), SpecPrepare (template filling and       *)
(* payload parsing alone), SpecReasoning (the split of a reply at the      *)
(* reasoning tag), SpecThinking (the chat window with its "Thinking..."    *)
(* indicator) and SpecRegistry (openChat and close on the registry of      *)
(* chats).                                                                 *)
(***************************************************************************)
EXTENDS Integers, Sequences, FiniteSets, TLC

VARIABLES
  settings,    \* game.settings values of the 'divination' namespace
  history,     \* the caller's history array (DivinationChat.history)
  ex,          \* activations of sendMessage: in flight, or just finished
  processing,  \* DivinationChat.processing
  calls,       \* number of messages submitted so far (bounds the run)
  contextItems,\* DivinationChat.contextItems
  tTurns,      \* truncateMessageHistory: argument messages
  tMax,        \* truncateMessageHistory: argument maxLength
  tResult,     \* truncateMessageHistory: returned array
  tState,      \* "input" before the call, "done" after it
  payloadTemplate, \* request preparation: the payloadJson setting
  replacements,    \* request preparation: the variables of lines 93-99
  filledTemplate,  \* request preparation: the template with the variables filled in
  payload,         \* request preparation: the parsed request body
  pState,          \* request preparation: the step reached
  instances,       \* DivinationChat.instances: the chats by id
  lastOpen,        \* the last openChat call: who called, with what, and what it returned
  objects,         \* number of DivinationChat objects constructed so far
  opens            \* number of openChat calls so far (bounds the run)

vars == <<settings, history, ex, processing, calls, contextItems, tTurns, tMax, tResult, tState,
          payloadTemplate, replacements, filledTemplate, payload, pState, instances, lastOpen, objects, opens>>

(***************************************************************************)
(* Bounds of the model.                                                    *)
(***************************************************************************)
MaxCalls == 2      \* calls of sendMessage in one behaviour
MaxChatCalls == 3  \* messages submitted to one chat window in one behaviour
MaxTurns == 4      \* length of the arrays given to truncateMessageHistory
MaxLimit == 4      \* largest maxLength given to truncateMessageHistory
NegLimits == 1     \* how many negative maxLength values are tried
MaxContextCalls == 1 \* messages submitted while context items come and go
MaxPieces == 3      \* pieces a payload template is put together from
MaxValueLen == 2    \* characters of a variable's value
MaxReplyLen == 4    \* characters of a reply the provider sends
MaxThinkingCalls == 2 \* messages submitted while the indicator is followed
MaxOpens == 4       \* openChat calls

(***************************************************************************)
(* Text helpers.                                                           *)
(***************************************************************************)

IsWhitespace(c) == c \in {" ", "\n", "\t", "\r"}

RECURSIVE TrimStart(_)
TrimStart(s) ==
  IF s = <<>> THEN <<>>
  ELSE IF IsWhitespace(Head(s)) THEN TrimStart(Tail(s)) ELSE s

RECURSIVE TrimEnd(_)
TrimEnd(s) ==
  IF s = <<>> THEN <<>>
  ELSE IF IsWhitespace(s[Len(s)]) THEN TrimEnd(SubSeq(s, 1, Len(s) - 1)) ELSE s

\* String.prototype.trim
Trim(s) == TrimEnd(TrimStart(s))

\* s.substring(i) occurs at 0-based offset i of s
OccursAt(s, sub, i) ==
  /\ i + Len(sub) <= Len(s)
  /\ SubSeq(s, i + 1, i + Len(sub)) = sub

\* String.prototype.includes
Includes(s, sub) == \E i \in 0..Len(s) : OccursAt(s, sub, i)

\* String.prototype.indexOf for a non-empty needle, -1 when absent
IndexOf(s, sub) ==
  IF Includes(s, sub)
  THEN CHOOSE i \in 0..Len(s) :
         OccursAt(s, sub, i) /\ \A j \in 0..(i - 1) : ~OccursAt(s, sub, j)
  ELSE -1

\* Array.prototype.slice(start) with one argument
Slice(arr, start) ==
  LET from == IF start < 0
              THEN (IF Len(arr) + start > 0 THEN Len(arr) + start ELSE 0)
              ELSE (IF start < Len(arr) THEN start ELSE Len(arr))
  IN  SubSeq(arr, from + 1, Len(arr))

(***************************************************************************)
(* Conversation turns.                                                     *)
(***************************************************************************)
Turn(r, c) == [role |-> r, content |-> c]

IsSystem(m) == m.role = "system"
NotSystem(m) == m.role # "system"

HasSystem(messages) == \E i \in 1..Len(messages) : IsSystem(messages[i])

\* index of the element Array.prototype.find(m => m.role === 'system') returns
FindSystem(messages) ==
  CHOOSE i \in 1..Len(messages) :
    IsSystem(messages[i]) /\ \A j \in 1..(i - 1) : NotSystem(messages[j])

(***************************************************************************)
(* utils.js: truncateMessageHistory(messages, maxLength).                  *)
(***************************************************************************)
truncateMessageHistory(messages, maxLength) ==
  IF Len(messages) <= maxLength THEN messages
  ELSE IF HasSystem(messages)
       THEN LET systemMessage == messages[FindSystem(messages)]
                otherMessages == SelectSeq(messages, NotSystem)
                recentMessages == Slice(otherMessages, (-1) * (maxLength - 1))
            IN  <<systemMessage>> \o recentMessages
       ELSE Slice(messages, (-1) * maxLength)

\* true when truncateMessageHistory returns its argument array itself
ReturnsSameArray(messages, maxLength) == Len(messages) <= maxLength

(***************************************************************************)
(* api.js: sendMessage(params), the part that runs before the first await. *)
(***************************************************************************)
\* a retry budget of four attempts instead of three
maxTriesFour == 4
maxTries == 3        \* api.js: const maxTries = 3
maxPreview == 100    \* api.js: const maxPreview = 100

NoError == "none"

\* a response that came without a body to read: status not ok, or fetch threw
NoBody == "none"

\* what one attempt met: an error kind, or "ok" with the text found at the path
Outcome(kind, value) == [kind |-> kind, value |-> value]

\* the merge without the `includes` test of line 44: g is put in front of the
\* system turn's content on every call
MergeGlobalContextAlways(messages, globalContext) ==
  IF globalContext # <<>> /\ Trim(globalContext) # <<>>
  THEN IF ~HasSystem(messages)
       THEN <<Turn("system", globalContext)>> \o messages
       ELSE LET i == FindSystem(messages)
            IN  [messages EXCEPT
                   ![i].content = globalContext \o <<"\n", "\n">> \o messages[i].content]
  ELSE messages

\* lines 27-48: let messages = params.history || []; merge of the global context
MergeGlobalContext(messages, globalContext) ==
  IF globalContext # <<>> /\ Trim(globalContext) # <<>>
  THEN IF ~HasSystem(messages)
       THEN <<Turn("system", globalContext)>> \o messages
       ELSE LET i == FindSystem(messages)
                existingContent == messages[i].content
            IN  IF ~Includes(existingContent, globalContext)
                THEN [messages EXCEPT
                        ![i].content = globalContext \o <<"\n", "\n">> \o existingContent]
                ELSE messages
  ELSE messages

(***************************************************************************)
(* api.js lines 50-67: the flattened history, and lines 92-99: the         *)
(* variables offered to the template.                                      *)
(***************************************************************************)
\* the display markup of lines 303-321, each block one element of the text
MarkupTokens ==
  { "<reasoning-preview>", "<reasoning-full-hidden>", "<reasoning-full>", "<response>" }

RECURSIVE AfterTag(_)
AfterTag(text) ==
  IF text = <<>> THEN <<>>
  ELSE IF Head(text) = ">" THEN Tail(text) ELSE AfterTag(Tail(text))

\* line 63: m.content.replace(/<[^>]*>?/gm, '')
RECURSIVE StripTags(_)
StripTags(text) ==
  IF text = <<>> THEN <<>>
  ELSE IF Head(text) \in MarkupTokens THEN StripTags(Tail(text))
  ELSE IF Head(text) = "<" THEN StripTags(AfterTag(Tail(text)))
  ELSE <<Head(text)>> \o StripTags(Tail(text))

\* lines 60-65: one turn as `${role}: ${content}`
RenderTurn(m) ==
  <<IF m.role = "user" THEN "User" ELSE "Assistant", ":", " ">> \o StripTags(m.content)

\* Array.prototype.join('\n\n') over the rendered turns
RECURSIVE JoinTurns(_)
JoinTurns(turns) ==
  IF turns = <<>> THEN <<>>
  ELSE IF Len(turns) = 1 THEN RenderTurn(turns[1])
  ELSE RenderTurn(turns[1]) \o <<"\n", "\n">> \o JoinTurns(Tail(turns))

\* lines 52-67; `messages` is the array before the new user turn is pushed
contextualHistory(messages) ==
  IF Len(messages) > 1
  THEN LET historyMessages == SelectSeq(messages, NotSystem)
       IN  IF Len(historyMessages) > 0
           THEN <<"Previous conversation:", "\n", "\n">> \o JoinTurns(historyMessages)
           ELSE <<>>
  ELSE <<>>

\* settings.js line 3
SYSTEM_PROMPT == <<"You are a helpful assistant">>

\* line 95
UserMessageVariable(context, message) ==
  IF context # <<>>
  THEN context \o <<"\n", "\n", "User", ":", " ">> \o message
  ELSE message

\* line 97
SystemMessageVariable(globalContext) ==
  IF globalContext # <<>> THEN globalContext ELSE SYSTEM_PROMPT

\* lines 69-73: messages.push({role: 'user', content: params.message})
PushUser(messages, message) == Append(messages, Turn("user", message))

\* the caller's array when sendMessage reaches line 75: both steps above
\* work on params.history itself
CallerArrayAfterPrepare(H, message, s) ==
  PushUser(MergeGlobalContext(H, s.globalContext), message)

\* lines 75-78: if (historyLimit > 0) messages = truncateMessageHistory(...)
TruncateIfNeeded(messages, historyLimit) ==
  IF historyLimit > 0 THEN truncateMessageHistory(messages, historyLimit)
  ELSE messages

\* `messages` still names params.history after line 78
StillCallerArray(messages, historyLimit) ==
  historyLimit > 0 => ReturnsSameArray(messages, historyLimit)

\* lines 12-221: the activation record of sendMessage when it first suspends
\* (pc = "fetch", tries = 1), or when line 89 assigns to the const
\* payloadTemplate and the call rejects before any request (pc = "thrown")
NewExchange(H, message, s) ==
  LET prepared == CallerArrayAfterPrepare(H, message, s)
      context == contextualHistory(MergeGlobalContext(H, s.globalContext))
      truncated == TruncateIfNeeded(prepared, s.messageHistory)
      alias == StillCallerArray(prepared, s.messageHistory)
  IN  [ https            |-> s.https,
        textGenerationApiUrl |-> s.textGenerationApiUrl,
        apiKey           |-> s.apiKey,
        payloadJson      |-> s.payloadJson,
        model            |-> s.models,
        calledWith       |-> s,
        settingsChanged  |-> FALSE,
        thinking         |-> "none",
        sent             |-> <<>>,
        resent           |-> <<>>,
        message          |-> message,
        called           |-> H,
        historyLimit     |-> s.messageHistory,
        globalContext    |-> s.globalContext,
        reasoningEndTag  |-> s.reasoningEndTag,
        reasoningDisplay |-> s.reasoningDisplay,
        responseJsonPath |-> s.responseJsonPath,
        body             |-> NoBody,
        alias            |-> alias,
        messages         |-> IF alias THEN <<>> ELSE truncated,
        MessageHistory   |-> truncated,
        Context          |-> context,
        UserMessage      |-> UserMessageVariable(context, message),
        SystemMessage    |-> SystemMessageVariable(s.globalContext),
        contextItems     |-> <<>>,
        pc               |-> IF s.payloadHasNul THEN "thrown" ELSE "fetch",
        tries            |-> IF s.payloadHasNul THEN 0 ELSE 1,
        response         |-> <<>>,
        error            |-> NoError,
        observed         |-> <<>>,
        thrown           |-> IF s.payloadHasNul THEN "TypeError" ELSE NoError,
        envelope         |-> <<>> ]

\* templates named in settings.payloadJson: the default of settings.js lines
\* 13-25 has a messages array and no {{MessageHistory}}, so line 204 puts the
\* `messages` array itself into the payload; the README's template with
\* {{MessageHistory}} holds the text the array had when it was filled in
MessagesByReference(payloadJson) == payloadJson = "defaultPayloadJson"

\* a request built from the settings as they are when the attempt starts
RequestFromCurrentSettings(e, callerArray) ==
  [ url      |-> <<settings.https, settings.textGenerationApiUrl>>,
    headers  |-> IF settings.apiKey # "" THEN <<"Content-Type", "Authorization", settings.apiKey>>
                 ELSE <<"Content-Type">>,
    body     |-> [ payloadJson    |-> settings.payloadJson,
                   Model          |-> settings.models,
                   UserMessage    |-> e.UserMessage,
                   SystemMessage  |-> e.SystemMessage,
                   Context        |-> e.Context,
                   MessageHistory |-> e.MessageHistory,
                   messages       |-> IF MessagesByReference(settings.payloadJson)
                                      THEN IF e.alias THEN callerArray ELSE e.messages
                                      ELSE <<>> ],
    responseJsonPath |-> settings.responseJsonPath ]

\* lines 226-230: the request of one attempt, from the values sendMessage
\* read when it was called; the body is the template with the variables
\* filled in, and JSON.stringify(payload) reads a referenced array anew
Request(e, callerArray) ==
  [ url      |-> <<e.https, e.textGenerationApiUrl>>,
    headers  |-> IF e.apiKey # "" THEN <<"Content-Type", "Authorization", e.apiKey>>
                 ELSE <<"Content-Type">>,
    body     |-> [ payloadJson    |-> e.payloadJson,
                   Model          |-> e.model,
                   UserMessage    |-> e.UserMessage,
                   SystemMessage  |-> e.SystemMessage,
                   Context        |-> e.Context,
                   MessageHistory |-> e.MessageHistory,
                   messages       |-> IF MessagesByReference(e.payloadJson)
                                      THEN IF e.alias THEN callerArray ELSE e.messages
                                      ELSE <<>> ],
    responseJsonPath |-> e.responseJsonPath ]

\* line 226: the request goes out when an attempt starts; `sent` keeps the
\* request of the first attempt and `resent` tells, for each later attempt,
\* whether its request was the same
Issue(e, callerArray) ==
  IF e.sent = <<>>
  THEN [e EXCEPT !.sent = <<Request(e, callerArray)>>]
  ELSE [e EXCEPT !.resent = Append(e.resent, Request(e, callerArray) = e.sent[1])]

FirstAttempt(e, callerArray) ==
  IF e.pc = "fetch" THEN Issue(e, callerArray) ELSE e

InFlight(e) == e.pc \in {"fetch", "wait"}
Finished(e) == e.pc \in {"returned", "thrown"}

\* the array sendMessage's local `messages` names
Messages(e, callerArray) == IF e.alias THEN callerArray ELSE e.messages

(***************************************************************************)
(* api.js line 245: responseJsonPath.split('.').reduce((o, i) => o[i], data)*)
(* A JSON value is a tagged record; an array is an object keyed "0", "1".. *)
(***************************************************************************)
JString(text) == [t |-> "string", v |-> text]
JObject(fields) == [t |-> "object", v |-> fields]
JUndefined == [t |-> "undefined"]
JTypeError == [t |-> "TypeError"]

\* o[i]: a property read; reading a property of undefined throws
Property(o, i) ==
  IF o.t = "TypeError" THEN JTypeError
  ELSE IF o.t = "undefined" THEN JTypeError
  ELSE IF o.t = "object" /\ i \in DOMAIN o.v THEN o.v[i]
  ELSE JUndefined

RECURSIVE Reduce(_, _)
Reduce(o, path) ==
  IF path = <<>> THEN o ELSE Reduce(Property(o, Head(path)), Tail(path))

\* a test that lets the empty string through as content
FalsyOnlyUndefined(value) == value.t = "undefined"

\* !response of line 248 for the value the reduce gave
Falsy(value) ==
  value.t = "undefined" \/ (value.t = "string" /\ value.v = <<>>)

(***************************************************************************)
(* api.js lines 217-280: the retry loop.                                   *)
(***************************************************************************)
\* line 223: while (tries < maxTries && !response); a true test runs
\* tries++ and issues the next fetch, a false one leaves the loop
LoopTest(e) ==
  IF e.tries < maxTries /\ e.response = <<>>
  THEN [e EXCEPT !.tries = e.tries + 1, !.pc = "fetch"]
  ELSE [e EXCEPT !.pc = "exit"]

\* lines 266-269: if (!response && tries < maxTries) await the 1000 ms timer
WaitBeforeRetry(e) ==
  IF e.response = <<>> /\ e.tries < maxTries
  THEN [e EXCEPT !.pc = "wait"]
  ELSE LoopTest(e)

\* lines 232-240: !fetchResponse.ok sets error and executes `continue`
OnHttpError(e) ==
  LoopTest([e EXCEPT !.error = "HTTP error",
                     !.observed = Append(e.observed, Outcome("HTTP error", <<>>))])

\* lines 257-264: fetch, json() or the path reduce threw
OnException(e) ==
  WaitBeforeRetry([e EXCEPT !.error = "exception",
                            !.observed = Append(e.observed, Outcome("exception", <<>>))])

\* lines 245-256: the path led to a falsy value
OnNoContent(e) ==
  WaitBeforeRetry([e EXCEPT !.error = "No content", !.response = <<>>,
                            !.observed = Append(e.observed, Outcome("No content", <<>>))])

\* line 245 with a truthy value at the path
OnContent(e, r) ==
  WaitBeforeRetry([e EXCEPT !.response = r,
                            !.observed = Append(e.observed, Outcome("ok", r))])

\* lines 242-256: fetchResponse.ok, the body `data` read, the path applied
OnJson(e, name, data) ==
  LET found == Reduce(data, e.responseJsonPath)
      seen == [e EXCEPT !.body = name]
  IN  IF found.t = "TypeError" THEN OnException(seen)
      ELSE IF Falsy(found) THEN OnNoContent(seen)
      ELSE OnContent(seen, found.v)

(***************************************************************************)
(* api.js lines 282-324: reasoning split and display markup.               *)
(***************************************************************************)
\* response.split(tag).length > 1
TagFound(response, tag) == Includes(response, tag)

\* String.prototype.split with a non-empty separator
RECURSIVE Split(_, _)
Split(str, separator) ==
  IF ~Includes(str, separator) THEN <<str>>
  ELSE <<SubSeq(str, 1, IndexOf(str, separator))>>
         \o Split(SubSeq(str, IndexOf(str, separator) + Len(separator) + 1, Len(str)),
                  separator)

\* Array.prototype.join
RECURSIVE Join(_, _)
Join(parts, separator) ==
  IF parts = <<>> THEN <<>>
  ELSE IF Len(parts) = 1 THEN parts[1]
  ELSE parts[1] \o separator \o Join(Tail(parts), separator)

\* parts[0].trim()
ReasoningOf(response, tag) == Trim(Split(response, tag)[1])

\* an answer that stops at the second occurrence of the tag: parts[1].trim()
AnswerOfSecondPart(response, tag) == Trim(Split(response, tag)[2])

\* parts.slice(1).join(tag).trim()
AnswerOf(response, tag) == Trim(Join(Tail(Split(response, tag)), tag))

Preview(reasoning) ==
  IF Len(reasoning) > maxPreview
  THEN SubSeq(reasoning, 1, maxPreview) \o <<".", ".", ".">>
  ELSE reasoning

\* a split that does not ask whether the tag was found
SplitWheneverTagSet(response, tag) ==
  tag # <<>> /\ Trim(tag) # <<>>

SplitActive(response, tag) ==
  tag # <<>> /\ Trim(tag) # <<>> /\ TagFound(response, tag)

reasoning(response, tag) ==
  IF SplitActive(response, tag) THEN ReasoningOf(response, tag) ELSE <<>>

formattedResponse(response, tag, display) ==
  IF ~SplitActive(response, tag) THEN response
  ELSE IF display = "hide" THEN AnswerOf(response, tag)
  ELSE IF display = "truncate"
       THEN <<"<reasoning-preview>">> \o Preview(ReasoningOf(response, tag))
            \o <<"<reasoning-full-hidden>">> \o ReasoningOf(response, tag)
            \o <<"<response>">> \o AnswerOf(response, tag)
       ELSE <<"<reasoning-full>">> \o ReasoningOf(response, tag)
            \o <<"<response>">> \o AnswerOf(response, tag)

\* lines 326-330: messages.push({role: 'you', content: response})
PushReply(messages, response) == Append(messages, Turn("you", response))

\* an envelope that hands back the history as it was sent, without the reply
EnvelopeWithoutReply(e, messagesAfterPush) ==
  [ content    |-> formattedResponse(e.response, e.reasoningEndTag, e.reasoningDisplay),
    rawContent |-> e.response,
    reasoning  |-> reasoning(e.response, e.reasoningEndTag),
    history    |-> e.MessageHistory ]

\* lines 332-337
Envelope(e, messagesAfterPush) ==
  [ content    |-> formattedResponse(e.response, e.reasoningEndTag, e.reasoningDisplay),
    rawContent |-> e.response,
    reasoning  |-> reasoning(e.response, e.reasoningEndTag),
    history    |-> messagesAfterPush ]

\* an exit without the `if (!response) throw` of lines 273-280: a failed
\* exchange returns an envelope around the empty response
AfterLoopNoThrow(e, callerArray) ==
  LET pushed == PushReply(Messages(e, callerArray), e.response)
  IN  [ e |-> [e EXCEPT !.pc = "returned",
                        !.messages = IF e.alias THEN <<>> ELSE pushed,
                        !.envelope = <<Envelope(e, pushed)>>],
        callerArray |-> IF e.alias THEN pushed ELSE callerArray ]

\* lines 272-338: what sendMessage does once the loop is left.  Gives the
\* finished activation and the caller's array.
AfterLoop(e, callerArray) ==
  IF e.response = <<>>
  THEN [ e |-> [e EXCEPT !.pc = "thrown", !.thrown = e.error],
         callerArray |-> callerArray ]
  ELSE LET pushed == PushReply(Messages(e, callerArray), e.response)
       IN  [ e |-> [e EXCEPT !.pc = "returned",
                             !.messages = IF e.alias THEN <<>> ELSE pushed,
                             !.envelope = <<Envelope(e, pushed)>>],
             callerArray |-> IF e.alias THEN pushed ELSE callerArray ]

(***************************************************************************)
(* chat.js lines 644-669: the chat's continuation after sendMessage        *)
(* resolves.                                                               *)
(***************************************************************************)
\* lines 645-663: response.response is undefined for sendMessage's envelope
botMessage(response) ==
  IF response.content # <<>> THEN response.content
  ELSE IF response.rawContent # <<>> THEN response.rawContent
  ELSE <<"I", "'", "m", " ", "s", "o", "r", "r", "y">>

\* lines 665-669: this.history.push({role: 'assistant', content: botMessage})
PushAssistant(messages, response) ==
  Append(messages, Turn("assistant", botMessage(response)))

(***************************************************************************)
(* Inputs.                                                                 *)
(***************************************************************************)
Displays == { "hide", "truncate", "show" }
UserMessages == { <<"a">>, <<"b">> }

\* response bodies a provider may send with a success status
Choices(message) == JObject([choices |-> JObject([n \in {"0"} |-> JObject([message |-> message])])])

ResponseBodies == { "reply", "reasoned", "emptyContent", "noContent", "noMessage" }

BodyOf(name) ==
  CASE name = "reply"        -> Choices(JObject([content |-> JString(<<"r">>)]))
    [] name = "reasoned"     -> Choices(JObject([content |-> JString(<<"t", "#", "r">>)]))
    [] name = "emptyContent" -> Choices(JObject([content |-> JString(<<>>)]))
    [] name = "noContent"    -> Choices(JObject([role |-> JString(<<"r">>)]))
    [] name = "noMessage"    -> JObject([choices |-> JObject([n \in {"0"} |-> JObject([index |-> JString(<<"0">>)])])])

Setting(g, l, tag, d, nul) ==
  [ globalContext |-> g, messageHistory |-> l, reasoningEndTag |-> tag,
    reasoningDisplay |-> d, payloadHasNul |-> nul,
    responseJsonPath |-> <<"choices", "0", "message", "content">>,
    https |-> TRUE, textGenerationApiUrl |-> "api.openai.com/v1/chat/completions",
    apiKey |-> "", payloadJson |-> "defaultPayloadJson", models |-> "gpt-4o" ]

\* the configurations tried: every global context with every limit, every
\* display mode with a delimiter set, and one template holding U+0000
SettingsTried ==
  { Setting(g, l, <<>>, "truncate", FALSE) : g \in { <<>>, <<" ">>, <<"g">> }, l \in { -1, 0, 1, 2, 3 } }
  \cup { Setting(<<>>, 0, <<"#">>, d, FALSE) : d \in Displays }
  \cup { Setting(<<"g">>, 2, <<"#">>, "show", FALSE), Setting(<<"g">>, 2, <<>>, "truncate", TRUE) }

\* no request preparation is followed step by step
\* references: null, or the chat object constructed as the n-th
Null == [null |-> TRUE]
Ref(n) == [null |-> FALSE, object |-> n]
NoId == "undefined"

\* chat.js line 15: static instances = new Map()
RegistryIdle ==
  /\ instances = <<>>
  /\ lastOpen = [user |-> [isGM |-> FALSE, meetsRole |-> FALSE], options |-> [id |-> NoId, history |-> <<>>], returned |-> Null]
  /\ objects = 0
  /\ opens = 0

PrepareIdle ==
  /\ RegistryIdle
  /\ payloadTemplate = <<>>
  /\ replacements = <<>>
  /\ filledTemplate = <<>>
  /\ payload = <<>>
  /\ pState = "idle"

TruncIdle ==
  /\ contextItems = <<>>
  /\ tTurns = <<>>
  /\ tMax = 0
  /\ tResult = <<>>
  /\ tState = "idle"
  /\ PrepareIdle

Init ==
  /\ settings \in SettingsTried
  /\ history \in { <<>>, <<Turn("system", <<"s">>)>>, <<Turn("system", <<"x", "g">>), Turn("user", <<"a">>)>>, <<Turn("user", <<"a">>), Turn("assistant", <<"r">>)>>, <<Turn("system", <<"s">>), Turn("user", <<"b">>), Turn("assistant", <<"r">>)>> }
  /\ ex = <<>>
  /\ processing = FALSE
  /\ calls = 0
  /\ TruncIdle

Unfinished(exs) == SelectSeq(exs, InFlight)

(***************************************************************************)
(* A caller of the exported sendMessage that keeps to the rule of one      *)
(* outstanding call per conversation and hands in the same array each time.*)
(***************************************************************************)
SendMessage(m) ==
  /\ calls < MaxCalls
  /\ Unfinished(ex) = <<>>
  /\ calls' = calls + 1
  /\ history' = CallerArrayAfterPrepare(history, m, settings)
  /\ ex' = <<FirstAttempt(NewExchange(history, m, settings), history')>>
  /\ UNCHANGED <<settings, processing, contextItems, tTurns, tMax, tResult, tState,
               payloadTemplate, replacements, filledTemplate, payload, pState, instances, lastOpen, objects, opens>>

(***************************************************************************)
(* chat.js lines 571-685: DivinationChat._handleUserMessage up to the      *)
(* await of sendMessage.  A call made while processing is set returns at   *)
(* line 573 from inside the try block, so the finally block runs.          *)
(***************************************************************************)
HandleUserMessage(m) ==
  /\ calls < MaxChatCalls
  /\ calls' = calls + 1
  /\ IF processing
     THEN /\ processing' = FALSE
          /\ UNCHANGED <<history, ex>>
     ELSE LET pushed == PushUser(history, m)
              e == [NewExchange(pushed, m, settings) EXCEPT !.contextItems = contextItems,
                                                         !.thinking = "pending"]
          IN  /\ history' = CallerArrayAfterPrepare(pushed, m, settings)
              /\ ex' = Append(Unfinished(ex), FirstAttempt(e, history'))
              /\ processing' = InFlight(e)
  /\ UNCHANGED <<settings, contextItems, tTurns, tMax, tResult, tState,
               payloadTemplate, replacements, filledTemplate, payload, pState, instances, lastOpen, objects, opens>>

(***************************************************************************)
(* The steps of one activation.  `chat` tells whether the caller is        *)
(* _handleUserMessage, whose continuation (lines 625-685) runs in the same *)
(* turn of the event loop as the settlement of sendMessage's promise.      *)
(***************************************************************************)
\* chat.js lines 625-631, reached only when sendMessage resolved:
\* clearTimeout(thinkingTimeout), and thinkingMessage.remove() if it is shown
AfterSendMessage(e) ==
  IF e.pc = "returned"
  THEN [e EXCEPT !.thinking = IF e.thinking = "shown" THEN "removed" ELSE "cancelled"]
  ELSE e

Settle(i, e, chat) ==
  IF e.pc = "fetch"
  THEN /\ ex' = [ex EXCEPT ![i] = Issue(e, history)]
       /\ UNCHANGED <<history, processing>>
  ELSE IF e.pc = "exit"
  THEN LET done == AfterLoop(e, history)
       IN  /\ ex' = [ex EXCEPT ![i] = IF chat THEN AfterSendMessage(done.e) ELSE done.e]
           /\ history' = IF chat /\ done.e.pc = "returned"
                         THEN PushAssistant(done.callerArray, done.e.envelope[1])
                         ELSE done.callerArray
           /\ processing' = IF chat THEN FALSE ELSE processing
  ELSE /\ ex' = [ex EXCEPT ![i] = e]
       /\ UNCHANGED <<history, processing>>

Attempting(i) == i \in 1..Len(ex) /\ ex[i].pc = "fetch"

FetchNotOk(i, chat) ==
  /\ Attempting(i)
  /\ Settle(i, OnHttpError([ex[i] EXCEPT !.body = NoBody]), chat)
  /\ UNCHANGED <<settings, calls, contextItems, tTurns, tMax, tResult, tState,
               payloadTemplate, replacements, filledTemplate, payload, pState, instances, lastOpen, objects, opens>>

FetchThrows(i, chat) ==
  /\ Attempting(i)
  /\ Settle(i, OnException([ex[i] EXCEPT !.body = NoBody]), chat)
  /\ UNCHANGED <<settings, calls, contextItems, tTurns, tMax, tResult, tState,
               payloadTemplate, replacements, filledTemplate, payload, pState, instances, lastOpen, objects, opens>>

\* lines 232-256: a success status; the body decides how the attempt ends
FetchOk(i, name, chat) ==
  /\ Attempting(i)
  /\ Settle(i, OnJson(ex[i], name, BodyOf(name)), chat)
  /\ UNCHANGED <<settings, calls, contextItems, tTurns, tMax, tResult, tState,
               payloadTemplate, replacements, filledTemplate, payload, pState, instances, lastOpen, objects, opens>>

\* line 268: the 1000 ms timer fires
RetryTimer(i, chat) ==
  /\ i \in 1..Len(ex)
  /\ ex[i].pc = "wait"
  /\ Settle(i, LoopTest(ex[i]), chat)
  /\ UNCHANGED <<settings, calls, contextItems, tTurns, tMax, tResult, tState,
               payloadTemplate, replacements, filledTemplate, payload, pState, instances, lastOpen, objects, opens>>

Slots == 1..MaxChatCalls

Next ==
  \/ \E m \in UserMessages : SendMessage(m)
  \/ \E i \in Slots : FetchNotOk(i, FALSE)
  \/ \E i \in Slots : FetchThrows(i, FALSE)
  \/ \E i \in Slots, b \in ResponseBodies : FetchOk(i, b, FALSE)
  \/ \E i \in Slots : RetryTimer(i, FALSE)

Spec == Init /\ [][Next]_vars

(***************************************************************************)
(* The settings dialog: game.settings.set while an exchange is in flight.  *)
(* sendMessage reads every setting into a local at lines 14-25.            *)
(***************************************************************************)
OpenAiSettings == Setting(<<>>, 0, <<"#">>, "show", FALSE)

OllamaSettings ==
  [OpenAiSettings EXCEPT !.https = FALSE,
                         !.textGenerationApiUrl = "localhost:11434/api/chat",
                         !.apiKey = "k",
                         !.responseJsonPath = <<"message", "content">>,
                         !.models = "llama3"]

PlainSettings ==
  [OpenAiSettings EXCEPT !.reasoningEndTag = <<>>,
                         !.reasoningDisplay = "hide",
                         !.payloadJson = "historyPayloadJson"]

SettingsChanged == { OpenAiSettings, OllamaSettings, PlainSettings }

ChangeSettings(s) ==
  /\ s # settings
  /\ settings' = s
  /\ ex' = [i \in 1..Len(ex) |->
              IF InFlight(ex[i]) THEN [ex[i] EXCEPT !.settingsChanged = TRUE] ELSE ex[i]]
  /\ UNCHANGED <<history, processing, calls, contextItems, tTurns, tMax, tResult, tState,
               payloadTemplate, replacements, filledTemplate, payload, pState, instances, lastOpen, objects, opens>>

InitSettings ==
  /\ settings \in SettingsChanged
  /\ history \in { <<>>, <<Turn("user", <<"u">>), Turn("assistant", <<"v">>)>> }
  /\ ex = <<>>
  /\ processing = FALSE
  /\ calls = 0
  /\ contextItems = <<>>
  /\ TruncIdle

NextSettings ==
  \/ \E m \in UserMessages : SendMessage(m)
  \/ \E i \in Slots : FetchNotOk(i, FALSE)
  \/ \E i \in Slots : FetchThrows(i, FALSE)
  \/ \E i \in Slots, b \in ResponseBodies : FetchOk(i, b, FALSE)
  \/ \E i \in Slots : RetryTimer(i, FALSE)
  \/ \E s \in SettingsChanged : ChangeSettings(s)

SpecSettings == InitSettings /\ [][NextSettings]_vars

InitLive ==
  /\ settings \in { Setting(<<>>, 0, <<>>, "truncate", FALSE), Setting(<<"g">>, 2, <<"#">>, "truncate", FALSE), Setting(<<>>, 0, <<>>, "truncate", TRUE) }
  /\ history \in { <<>>, <<Turn("system", <<"s">>)>> }
  /\ ex = <<>>
  /\ processing = FALSE
  /\ calls = 0
  /\ contextItems = <<>>
  /\ TruncIdle

FetchSettles ==
  \E i \in Slots :
    \/ FetchNotOk(i, FALSE)
    \/ FetchThrows(i, FALSE)
    \/ \E b \in ResponseBodies : FetchOk(i, b, FALSE)

TimerFires == \E i \in Slots : RetryTimer(i, FALSE)

SpecLive == InitLive /\ [][Next]_vars /\ WF_vars(FetchSettles) /\ WF_vars(TimerFires)

\* what the user types into the chat window
ChatMessages == { <<"a">> }

InitChat ==
  /\ settings \in { Setting(<<"g">>, 2, <<>>, "truncate", FALSE), Setting(<<>>, 0, <<"#">>, "show", FALSE), Setting(<<"g">>, 2, <<>>, "truncate", TRUE) }
  /\ history \in { <<>> }
  /\ ex = <<>>
  /\ processing = FALSE
  /\ calls = 0
  /\ TruncIdle

NextChat ==
  \/ \E m \in ChatMessages : HandleUserMessage(m)
  \/ \E i \in Slots : FetchNotOk(i, TRUE)
  \/ \E i \in Slots : FetchThrows(i, TRUE)
  \/ \E i \in Slots, b \in ResponseBodies : FetchOk(i, b, TRUE)
  \/ \E i \in Slots : RetryTimer(i, TRUE)

SpecChat == InitChat /\ [][NextChat]_vars

(***************************************************************************)
(* chat.js lines 98-132: the context items of a chat.                      *)
(***************************************************************************)
ContextItem(id, type, content) ==
  [id |-> id, type |-> type, name |-> id, content |-> content]

\* a journal entry, the same entry after an edit, and a page
ContextItemsTried ==
  { ContextItem("j1", "journal", <<"c">>),
    ContextItem("j1", "journal", <<"d">>),
    ContextItem("p1", "page", <<"e">>) }

SameItem(item, id, type) == item.id = id /\ item.type = type

\* an addContext that pushes without looking for the pair
addContextAlwaysPush(items, contextItem) == Append(items, contextItem)

\* lines 98-116
addContext(items, contextItem) ==
  IF \E k \in 1..Len(items) : SameItem(items[k], contextItem.id, contextItem.type)
  THEN LET existingIndex ==
             CHOOSE k \in 1..Len(items) :
               /\ SameItem(items[k], contextItem.id, contextItem.type)
               /\ \A j \in 1..(k - 1) : ~SameItem(items[j], contextItem.id, contextItem.type)
       IN  [items EXCEPT ![existingIndex] = contextItem]
  ELSE Append(items, contextItem)

\* lines 123-132
removeContext(items, id, type) ==
  LET Kept(item) == ~SameItem(item, id, type)
  IN  SelectSeq(items, Kept)

AddContext(contextItem) ==
  /\ contextItems' = addContext(contextItems, contextItem)
  /\ UNCHANGED <<settings, history, ex, processing, calls, tTurns, tMax, tResult, tState,
               payloadTemplate, replacements, filledTemplate, payload, pState, instances, lastOpen, objects, opens>>

RemoveContext(id, type) ==
  /\ contextItems' = removeContext(contextItems, id, type)
  /\ UNCHANGED <<settings, history, ex, processing, calls, tTurns, tMax, tResult, tState,
               payloadTemplate, replacements, filledTemplate, payload, pState, instances, lastOpen, objects, opens>>

InitContext ==
  /\ settings = Setting(<<>>, 0, <<>>, "truncate", FALSE)
  /\ history = <<>>
  /\ ex = <<>>
  /\ processing = FALSE
  /\ calls = 0
  /\ TruncIdle

\* the replies tried while context items come and go
ContextBodies == { "reply", "noContent" }

NextContext ==
  \/ \E m \in ChatMessages : calls < MaxContextCalls /\ HandleUserMessage(m)
  \/ \E i \in Slots : FetchNotOk(i, TRUE)
  \/ \E i \in Slots : FetchThrows(i, TRUE)
  \/ \E i \in Slots, b \in ContextBodies : FetchOk(i, b, TRUE)
  \/ \E i \in Slots : RetryTimer(i, TRUE)
  \/ \E item \in ContextItemsTried : AddContext(item)
  \/ \E item \in ContextItemsTried : RemoveContext(item.id, item.type)

SpecContext == InitContext /\ [][NextContext]_vars

(***************************************************************************)
(* chat.js lines 599-615: the "Thinking..." indicator.  The timer is set   *)
(* before sendMessage is called and fires 500 to 1000 ms later, unless it  *)
(* was cleared.                                                            *)
(***************************************************************************)
ThinkingTimer(i) ==
  /\ i \in 1..Len(ex)
  /\ ex[i].thinking = "pending"
  /\ ex' = [ex EXCEPT ![i].thinking = "shown"]
  /\ UNCHANGED <<settings, history, processing, calls, contextItems, tTurns, tMax, tResult, tState,
               payloadTemplate, replacements, filledTemplate, payload, pState, instances, lastOpen, objects, opens>>

NextThinking ==
  \/ \E m \in ChatMessages : calls < MaxThinkingCalls /\ HandleUserMessage(m)
  \/ \E i \in Slots : FetchNotOk(i, TRUE)
  \/ \E i \in Slots : FetchThrows(i, TRUE)
  \/ \E i \in Slots, b \in { "reply", "noContent" } : FetchOk(i, b, TRUE)
  \/ \E i \in Slots : RetryTimer(i, TRUE)
  \/ \E i \in Slots : ThinkingTimer(i)

SpecThinking == InitChat /\ [][NextThinking]_vars

(***************************************************************************)
(* The registry of chats: chat.js lines 15, 26-58, 227-256 and 282-288.    *)
(* A chat object is known by the number it got at construction; the       *)
(* registry is a function from ids to chat objects.                        *)
(***************************************************************************)
\* settings.js lines 172-195; meetsRole is the outcome of
\* user.role >= CONST.USER_ROLES[requiredPermission]
hasPermission(user) == user.isGM \/ user.meetsRole

\* a registry that never finds a chat
HasNever(map, id) == FALSE

\* Map.prototype.has
Has(map, id) == id \in DOMAIN map

\* constructor, lines 26-58; the window is not rendered yet
DivinationChat(options, object) ==
  [ id      |-> IF options.id # NoId THEN options.id ELSE "randomID",
    history |-> options.history,
    object  |-> object,
    visible |-> FALSE ]

\* render(true), lines 262-276
Render(chat) == [chat EXCEPT !.visible = TRUE]

\* lines 227-256
OpenChat(user, options) ==
  /\ opens < MaxOpens
  /\ opens' = opens + 1
  /\ IF ~hasPermission(user)
     THEN /\ lastOpen' = [user |-> user, options |-> options, returned |-> Null]
          /\ UNCHANGED <<instances, objects>>
     ELSE LET id == IF options.id # NoId THEN options.id ELSE "default"
          IN  IF Has(instances, id)
              THEN /\ instances' = [instances EXCEPT ![id] = Render(instances[id])]
                   /\ lastOpen' = [user |-> user, options |-> options,
                                   returned |-> Ref(instances[id].object)]
                   /\ UNCHANGED objects
              ELSE LET chat == DivinationChat([options EXCEPT !.id = id], objects + 1)
                   IN  /\ instances' = [ k \in DOMAIN instances \cup {chat.id} |->
                                           IF k = chat.id THEN Render(chat) ELSE instances[k] ]
                       /\ lastOpen' = [user |-> user, options |-> options,
                                       returned |-> Ref(chat.object)]
                       /\ objects' = objects + 1
  /\ UNCHANGED <<settings, history, ex, processing, calls, contextItems, tTurns, tMax, tResult,
               tState, payloadTemplate, replacements, filledTemplate, payload, pState>>

\* lines 282-288
Close(id) ==
  /\ Has(instances, id)
  /\ instances' = [instances EXCEPT ![id].visible = FALSE]
  /\ UNCHANGED <<settings, history, ex, processing, calls, contextItems, tTurns, tMax, tResult,
               tState, payloadTemplate, replacements, filledTemplate, payload, pState,
               lastOpen, objects, opens>>

InitRegistry ==
  /\ settings = Setting(<<>>, 0, <<>>, "truncate", FALSE)
  /\ history = <<>>
  /\ ex = <<>>
  /\ processing = FALSE
  /\ calls = 0
  /\ TruncIdle

NextRegistry ==
  \/ \E user \in [isGM : BOOLEAN, meetsRole : BOOLEAN], options \in [ id : {NoId, "default", "a"}, history : {<<>>, <<Turn("user", <<"a">>)>>} ] : OpenChat(user, options)
  \/ \E id \in {"default", "a"} : Close(id)

SpecRegistry == InitRegistry /\ [][NextRegistry]_vars

(***************************************************************************)
(* truncateMessageHistory on its own.                                      *)
(***************************************************************************)

SeqsUpTo(S, n) == UNION { [1..k -> S] : k \in 0..n }

InitTrunc ==
  /\ settings = Setting(<<>>, 0, <<>>, "truncate", FALSE)
  /\ history = <<>>
  /\ ex = <<>>
  /\ processing = FALSE
  /\ calls = 0
  /\ contextItems = <<>>
  /\ tTurns \in SeqsUpTo({ Turn("system", <<"s">>), Turn("system", <<"t">>), Turn("user", <<"a">>), Turn("user", <<"b">>), Turn("assistant", <<"r">>) }, MaxTurns)
  /\ tMax \in (0 - NegLimits)..MaxLimit
  /\ tResult = <<>>
  /\ tState = "input"
  /\ PrepareIdle

Truncate ==
  /\ tState = "input"
  /\ tResult' = truncateMessageHistory(tTurns, tMax)
  /\ tState' = "done"
  /\ UNCHANGED <<settings, history, ex, processing, calls, contextItems, tTurns, tMax,
                 payloadTemplate, replacements, filledTemplate, payload, pState, instances, lastOpen, objects, opens>>

NextTrunc == Truncate

SpecTrunc == InitTrunc /\ [][NextTrunc]_vars

(***************************************************************************)
(* api.js lines 347-373: replaceTemplateVariables(template, replacements). *)
(* A placeholder is the text {{Name}}; a name, like every word the         *)
(* substitution never looks into, is one element of the text.              *)
(***************************************************************************)
\* Object.entries(replacements), in the order of the literal at lines 93-99
Variables == <<"Model", "UserMessage", "MessageHistory", "SystemMessage", "Context">>

\* line 352: new RegExp(`{{${variable}}}`, 'g') matches this text
PlaceholderText(variable) == <<"{", "{", variable, "}", "}">>

\* JSON.stringify of one character inside a string literal
EscapeChar(c) ==
  CASE c = "\"" -> <<"\\", "\"">>
    [] c = "\\" -> <<"\\", "\\">>
    [] c = "\n" -> <<"\\", "n">>
    [] OTHER    -> <<c>>

\* line 357: JSON.stringify(value).slice(1, -1)
RECURSIVE EscapeString(_)
EscapeString(text) ==
  IF text = <<>> THEN <<>> ELSE EscapeChar(Head(text)) \o EscapeString(Tail(text))

Quoted(text) == <<"\"">> \o EscapeString(text) \o <<"\"">>

\* JSON.stringify of one turn {role, content}
StringifyTurn(m) ==
  <<"{", "\"", "role", "\"", ":">> \o Quoted(<<m.role>>)
    \o <<",", "\"", "content", "\"", ":">> \o Quoted(m.content) \o <<"}">>

RECURSIVE StringifyTurns(_)
StringifyTurns(turns) ==
  IF turns = <<>> THEN <<>>
  ELSE IF Len(turns) = 1 THEN StringifyTurn(turns[1])
  ELSE StringifyTurn(turns[1]) \o <<",">> \o StringifyTurns(Tail(turns))

\* line 362: JSON.stringify(value) of the messages array
StringifyMessages(turns) == <<"[">> \o StringifyTurns(turns) \o <<"]">>

\* the values of the replacements object: a string, or the array of turns
JMessages(turns) == [t |-> "object", v |-> turns]

\* lines 355-370: the text handed to String.prototype.replace
ReplacementText(value) ==
  IF value.t = "string" THEN EscapeString(value.v)
  ELSE IF value.t = "object" THEN StringifyMessages(value.v)
  ELSE value.v

\* the character U+0060 (grave accent), written by its code point
GraveAccent == "U+0060"

\* String.prototype.replace with a string as replacement (GetSubstitution
\* of ECMA-262, no capture groups): $$ is $, $& the matched text, $ with a
\* grave accent the text before the match, $ with an apostrophe the text
\* after it; any other $ stands for itself
RECURSIVE GetSubstitution(_, _, _, _)
GetSubstitution(matched, str, position, replacement) ==
  IF replacement = <<>> THEN <<>>
  ELSE IF Head(replacement) = "$" /\ Len(replacement) >= 2
            /\ replacement[2] \in {"$", "&", GraveAccent, "'"}
       THEN LET c == replacement[2]
                rest == SubSeq(replacement, 3, Len(replacement))
                put == CASE c = "$" -> <<"$">>
                         [] c = "&" -> matched
                         [] c = GraveAccent -> SubSeq(str, 1, position)
                         [] c = "'" -> SubSeq(str, position + Len(matched) + 1, Len(str))
            IN  put \o GetSubstitution(matched, str, position, rest)
       ELSE <<Head(replacement)>> \o GetSubstitution(matched, str, position, Tail(replacement))

\* result.replace(pattern, text) with a global pattern, from offset i on
RECURSIVE ReplaceFrom(_, _, _, _)
ReplaceFrom(str, pattern, replacement, i) ==
  IF i >= Len(str) THEN <<>>
  ELSE IF OccursAt(str, pattern, i)
       THEN GetSubstitution(pattern, str, i, replacement)
              \o ReplaceFrom(str, pattern, replacement, i + Len(pattern))
       ELSE <<str[i + 1]>> \o ReplaceFrom(str, pattern, replacement, i + 1)

ReplaceAll(str, pattern, replacement) == ReplaceFrom(str, pattern, replacement, 0)

\* lines 351-370: the loop over the variables, from the k-th on
RECURSIVE FillFrom(_, _, _)
FillFrom(result, values, k) ==
  IF k > Len(Variables) THEN result
  ELSE FillFrom(ReplaceAll(result, PlaceholderText(Variables[k]),
                           ReplacementText(values[Variables[k]])),
                values, k + 1)

replaceTemplateVariables(template, values) == FillFrom(template, values, 1)

(***************************************************************************)
(* JSON.parse(text), as ECMA-404 defines it.  The words null, true, false  *)
(* and a number are one element of the text each; \u escapes are not       *)
(* among the texts tried and are rejected.                                 *)
(***************************************************************************)

JNull == [t |-> "null"]
JBoolean(b) == [t |-> "boolean", v |-> b]
JNumber(n) == [t |-> "number", v |-> n]
JArray(items) == [t |-> "array", items |-> items]
JMembers(members) == [t |-> "object", members |-> members]

SyntaxError == [ok |-> FALSE, value |-> JNull, rest |-> <<>>]
Parsed(value, rest) == [ok |-> TRUE, value |-> value, rest |-> rest]

RECURSIVE SkipWhitespace(_)
SkipWhitespace(text) ==
  IF text # <<>> /\ Head(text) \in { " ", "\n", "\t", "\r" } THEN SkipWhitespace(Tail(text)) ELSE text

\* the character an escape \c stands for
Unescape(c) ==
  CASE c = "n" -> "\n"
    [] c = "t" -> "\t"
    [] c = "r" -> "\r"
    [] c = "b" -> "U+0008"
    [] c = "f" -> "U+000C"
    [] OTHER   -> c

\* the characters of a string literal after its opening quote
RECURSIVE ParseChars(_, _)
ParseChars(text, acc) ==
  IF text = <<>> THEN SyntaxError
  ELSE IF Head(text) = "\"" THEN Parsed(JString(acc), Tail(text))
  ELSE IF Head(text) = "\\"
       THEN IF Len(text) >= 2 /\ text[2] \in {"\"", "\\", "/", "b", "f", "n", "r", "t"}
            THEN ParseChars(SubSeq(text, 3, Len(text)), Append(acc, Unescape(text[2])))
            ELSE SyntaxError
  ELSE IF Head(text) \in { "\n", "\t", "\r", "NUL" } THEN SyntaxError
  ELSE ParseChars(Tail(text), Append(acc, Head(text)))

RECURSIVE ParseValue(_)
RECURSIVE ParseElements(_, _)
RECURSIVE ParseMembers(_, _)

ParseValue(text) ==
  LET t == SkipWhitespace(text)
  IN  IF t = <<>> THEN SyntaxError
      ELSE IF Head(t) = "\"" THEN ParseChars(Tail(t), <<>>)
      ELSE IF Head(t) = "null" THEN Parsed(JNull, Tail(t))
      ELSE IF Head(t) = "true" THEN Parsed(JBoolean(TRUE), Tail(t))
      ELSE IF Head(t) = "false" THEN Parsed(JBoolean(FALSE), Tail(t))
      ELSE IF Head(t) \in { "0", "1", "0.7" } THEN Parsed(JNumber(Head(t)), Tail(t))
      ELSE IF Head(t) = "["
           THEN IF SkipWhitespace(Tail(t)) # <<>> /\ Head(SkipWhitespace(Tail(t))) = "]"
                THEN Parsed(JArray(<<>>), Tail(SkipWhitespace(Tail(t))))
                ELSE ParseElements(Tail(t), <<>>)
      ELSE IF Head(t) = "{"
           THEN IF SkipWhitespace(Tail(t)) # <<>> /\ Head(SkipWhitespace(Tail(t))) = "}"
                THEN Parsed(JMembers(<<>>), Tail(SkipWhitespace(Tail(t))))
                ELSE ParseMembers(Tail(t), <<>>)
      ELSE SyntaxError

\* value (, value)* ] after the opening bracket
ParseElements(text, acc) ==
  LET item == ParseValue(text)
      after == SkipWhitespace(item.rest)
  IN  IF ~item.ok \/ after = <<>> THEN SyntaxError
      ELSE IF Head(after) = "," THEN ParseElements(Tail(after), Append(acc, item.value))
      ELSE IF Head(after) = "]" THEN Parsed(JArray(Append(acc, item.value)), Tail(after))
      ELSE SyntaxError

\* "key" : value (, "key" : value)* } after the opening brace
ParseMembers(text, acc) ==
  LET t == SkipWhitespace(text)
      key == IF t # <<>> /\ Head(t) = "\"" THEN ParseChars(Tail(t), <<>>) ELSE SyntaxError
      colon == SkipWhitespace(key.rest)
      item == IF key.ok /\ colon # <<>> /\ Head(colon) = ":"
              THEN ParseValue(Tail(colon)) ELSE SyntaxError
      after == SkipWhitespace(item.rest)
      member == <<key.value.v, item.value>>
  IN  IF ~item.ok \/ after = <<>> THEN SyntaxError
      ELSE IF Head(after) = "," THEN ParseMembers(Tail(after), Append(acc, member))
      ELSE IF Head(after) = "}" THEN Parsed(JMembers(Append(acc, member)), Tail(after))
      ELSE SyntaxError

\* JSON.parse: one value and nothing but whitespace after it
JSONparse(text) ==
  LET r == ParseValue(text)
  IN  IF r.ok /\ SkipWhitespace(r.rest) = <<>> THEN Parsed(r.value, <<>>) ELSE SyntaxError

(***************************************************************************)
(* api.js lines 83-205: from the payload template to the request body.     *)
(* Line 146 acts only on a syntax error at position 467; the texts tried   *)
(* are shorter than that.                                                  *)
(***************************************************************************)
\* /(['"])\s*:\s*/g replaced by '$1:'
RECURSIVE NormalizeColons(_)
NormalizeColons(text) ==
  IF text = <<>> THEN <<>>
  ELSE IF Head(text) \in {"'", "\""}
            /\ SkipWhitespace(Tail(text)) # <<>>
            /\ Head(SkipWhitespace(Tail(text))) = ":"
       THEN <<Head(text), ":">>
              \o NormalizeColons(SkipWhitespace(Tail(SkipWhitespace(Tail(text)))))
       ELSE <<Head(text)>> \o NormalizeColons(Tail(text))

\* /,\s*}/g replaced by '}', and /,\s*\]/g by ']'
RECURSIVE DropTrailingCommas(_, _)
DropTrailingCommas(text, closer) ==
  IF text = <<>> THEN <<>>
  ELSE IF Head(text) = ","
            /\ SkipWhitespace(Tail(text)) # <<>>
            /\ Head(SkipWhitespace(Tail(text))) = closer
       THEN <<closer>> \o DropTrailingCommas(Tail(SkipWhitespace(Tail(text))), closer)
       ELSE <<Head(text)>> \o DropTrailingCommas(Tail(text), closer)

\* lines 155-163: cleanedTemplate
CleanedTemplate(text) ==
  LET lf      == ReplaceAll(text, <<"\r", "\n">>, <<"\n">>)
      doubled == ReplaceAll(lf, <<"\\">>, <<"\\", "\\">>)
      newline == ReplaceAll(doubled, <<"\\", "\\", "n">>, <<"\\", "n">>)
      tab     == ReplaceAll(newline, <<"\\", "\\", "t">>, <<"\\", "t">>)
      quote   == ReplaceAll(tab, <<"\\", "\\", "\"">>, <<"\\", "\"">>)
      colons  == NormalizeColons(quote)
  IN  DropTrailingCommas(DropTrailingCommas(colons, "}"), "]")

\* lines 187-190: the fallback payload
FallbackPayload(model, messages) ==
  JMembers(<< <<<<"model">>, model>>, <<<<"messages">>, JMessages(messages)>> >>)

\* a parse that gives null when both attempts fail
ParsePayloadNoFallback(filled, model, messages) ==
  LET text   == Trim(filled)
      strict == JSONparse(text)
      second == JSONparse(CleanedTemplate(text))
  IN  IF strict.ok THEN strict.value
      ELSE IF second.ok THEN second.value
      ELSE JNull

\* lines 113-198: the strict parse, the parse of the cleaned text, the fallback
ParsePayload(filled, model, messages) ==
  LET text   == Trim(filled)
      strict == JSONparse(text)
      second == JSONparse(CleanedTemplate(text))
  IN  IF strict.ok THEN strict.value
      ELSE IF second.ok THEN second.value
      ELSE FallbackPayload(model, messages)

\* payload[key] of a parsed value that is not null
RECURSIVE Member(_, _)
Member(members, key) ==
  IF members = <<>> THEN JUndefined
  ELSE IF members[Len(members)][1] = key THEN members[Len(members)][2]
  ELSE Member(SubSeq(members, 1, Len(members) - 1), key)

Get(value, key) == IF value.t = "object" THEN Member(value.members, key) ELSE JUndefined

\* ToBoolean of a parsed value
Truthy(value) ==
  CASE value.t \in {"undefined", "null"} -> FALSE
    [] value.t = "boolean" -> value.v
    [] value.t = "number"  -> value.v # "0"
    [] value.t = "string"  -> value.v # <<>>
    [] OTHER               -> TRUE

\* payload.messages = messages
SetMessages(value, messages) ==
  IF value.t = "object"
  THEN JMembers([k \in 1..Len(value.members) |->
                   IF value.members[k][1] = <<"messages">>
                   THEN <<<<"messages">>, JMessages(messages)>>
                   ELSE value.members[k]])
  ELSE value

\* lines 200-205; reading .messages of null throws a TypeError
OverrideMessages(template, parsed, messages) ==
  IF Includes(template, PlaceholderText("MessageHistory")) THEN [thrown |-> FALSE, payload |-> parsed]
  ELSE IF parsed.t = "null" THEN [thrown |-> TRUE, payload |-> parsed]
  ELSE IF Truthy(Get(parsed, <<"messages">>))
       THEN [thrown |-> FALSE, payload |-> SetMessages(parsed, messages)]
       ELSE [thrown |-> FALSE, payload |-> parsed]

\* lines 83-205; line 89 assigns to the const payloadTemplate, a TypeError
PrepareRequest(template, values) ==
  IF Includes(template, <<"NUL">>)
  THEN [state |-> "thrown", filled |-> <<>>, payload |-> <<>>]
  ELSE LET filled   == replaceTemplateVariables(template, values)
           parsed   == ParsePayload(filled, values.Model, values.MessageHistory.v)
           override == OverrideMessages(template, parsed, values.MessageHistory.v)
       IN  IF override.thrown
           THEN [state |-> "thrown", filled |-> filled, payload |-> <<>>]
           ELSE [state |-> "ready", filled |-> filled, payload |-> <<override.payload>>]

(***************************************************************************)
(* Request preparation on its own: a template and the variables, then      *)
(* lines 83-205 in one step.                                               *)
(***************************************************************************)

RECURSIVE Flatten(_)
Flatten(pieces) == IF pieces = <<>> THEN <<>> ELSE Head(pieces) \o Flatten(Tail(pieces))

\* settings.js lines 13-25, shortened to its model and messages members
DefaultTemplate ==
  <<"{", "\"", "model", "\"", ":", "\"">> \o PlaceholderText("Model")
    \o <<"\"", ",", "\"", "messages", "\"", ":", "[", "{", "\"", "role", "\"", ":",
         "\"", "user", "\"", ",", "\"", "content", "\"", ":", "\"">>
    \o PlaceholderText("UserMessage") \o <<"\"", "}", "]", "}">>

\* a template that asks for the structured history
HistoryTemplate ==
  <<"{", "\"", "model", "\"", ":", "\"">> \o PlaceholderText("Model")
    \o <<"\"", ",", "\"", "messages", "\"", ":">> \o PlaceholderText("MessageHistory")
    \o <<"}">>

\* valid JSON but for the line break written inside a string value
NewlineTemplate ==
  <<"{", "\"", "model", "\"", ":", "\"">> \o PlaceholderText("Model")
    \o <<"\"", ",", "\"", "prompt", "\"", ":", "\"", "a", "\n", "b", "\"", "}">>

TemplatesTried ==
  { Flatten(pieces) : pieces \in SeqsUpTo({ PlaceholderText("Model"), PlaceholderText("UserMessage"), PlaceholderText("X"), <<"\"">>, <<"a">> }, MaxPieces) } \cup { DefaultTemplate, HistoryTemplate, NewlineTemplate, <<"null">>, <<"{", "\"", "model", "\"", ":", "\"", "NUL">> \o PlaceholderText("Model") \o <<"\"", "}">> }

InitPrepare ==
  /\ settings = Setting(<<>>, 0, <<>>, "truncate", FALSE)
  /\ history = <<>>
  /\ ex = <<>>
  /\ processing = FALSE
  /\ calls = 0
  /\ contextItems = <<>>
  /\ tTurns = <<>>
  /\ tMax = 0
  /\ tResult = <<>>
  /\ tState = "idle"
  /\ RegistryIdle
  /\ payloadTemplate \in TemplatesTried
  /\ replacements \in { [ Model |-> JString(<<"m">>), UserMessage |-> JString(u), MessageHistory |-> JMessages(<<Turn("user", <<"a">>)>>), SystemMessage |-> JString(<<"s">>), Context |-> JString(<<"c">>) ] : u \in (SeqsUpTo({ "a", "\"", "\\", "\n", "$", "&" }, MaxValueLen) \cup { PlaceholderText("Context"), <<"$", GraveAccent>>, <<"$", "'">> }) }
  /\ filledTemplate = <<>>
  /\ payload = <<>>
  /\ pState = "template"

Prepare ==
  /\ pState = "template"
  /\ LET r == PrepareRequest(payloadTemplate, replacements)
     IN  /\ filledTemplate' = r.filled
         /\ payload' = r.payload
         /\ pState' = r.state
  /\ UNCHANGED <<settings, history, ex, processing, calls, contextItems,
                 tTurns, tMax, tResult, tState, payloadTemplate, replacements,
                 instances, lastOpen, objects, opens>>

NextPrepare == Prepare

SpecPrepare == InitPrepare /\ [][NextPrepare]_vars

(***************************************************************************)
(* The reasoning split on its own: one call in flight, and the reply text  *)
(* its first attempt extracts.                                             *)
(***************************************************************************)

InitReasoning ==
  /\ settings \in { Setting(<<>>, 0, tag, d, FALSE) : tag \in { <<>>, <<" ">>, <<"#">>, <<"#", "#">> }, d \in Displays }
  /\ history = <<Turn("user", <<"a">>)>>
  /\ ex = <<FirstAttempt(NewExchange(<<>>, <<"a">>, settings), history)>>
  /\ processing = FALSE
  /\ calls = 1
  /\ contextItems = <<>>
  /\ TruncIdle

\* lines 242-256 with the reply text at the response path
FetchReply(i, text) ==
  /\ Attempting(i)
  /\ ex[i].tries = 1
  /\ Settle(i, OnJson(ex[i], "reply", Choices(JObject([content |-> JString(text)]))), FALSE)
  /\ UNCHANGED <<settings, calls, contextItems, tTurns, tMax, tResult, tState,
               payloadTemplate, replacements, filledTemplate, payload, pState, instances, lastOpen, objects, opens>>

NextReasoning == \E text \in (SeqsUpTo({ "t", "#", " " }, MaxReplyLen)) : FetchReply(1, text)

SpecReasoning == InitReasoning /\ [][NextReasoning]_vars

(***************************************************************************)
(* Properties.                                                             *)
(***************************************************************************)
Exchanges == { ex[i] : i \in 1..Len(ex) }

Failed(o) == o.kind # "ok"
AllFailed(e) == \A k \in 1..Len(e.observed) : Failed(e.observed[k])

IsReply(m) == m.role \in {"assistant", "you"}
Blank(text) == Trim(text) = <<>>

\* the last n elements of s, all of s when it has fewer
LastN(s, n) == IF n >= Len(s) THEN s ELSE SubSeq(s, Len(s) - n + 1, Len(s))

\* C1: an exchange never makes more than 3 HTTP attempts, and one whose
\* attempts all failed has made exactly 3 of them and has thrown the error
\* met by the third.
C1_ThreeAttemptsThenLastError ==
  \A e \in Exchanges :
    /\ e.tries <= 3
    /\ Len(e.observed) <= 3
    /\ (e.pc = "thrown" /\ e.observed # <<>>) =>
         /\ AllFailed(e)
         /\ Len(e.observed) = 3
         /\ e.tries = 3
         /\ e.thrown = e.observed[3].kind
    /\ (Finished(e) /\ e.observed # <<>> /\ AllFailed(e)) => e.pc = "thrown"

C1_Witness ==
  \E e \in Exchanges :
    /\ e.pc = "thrown"
    /\ Len(e.observed) = 3
    /\ e.observed[2].kind = "exception"
    /\ e.observed[3].kind = "HTTP error"
    /\ e.thrown = "HTTP error"

\* C2: a step that issues the second or third HTTP attempt of an exchange
\* is the end of a 1-second wait of that exchange, whatever made the
\* earlier attempt fail.
C2_WaitBetweenAttempts ==
  [][ \A i \in 1..Len(ex) :
        ( /\ calls' = calls
          /\ ex[i].tries >= 1
          /\ ex'[i].tries = ex[i].tries + 1 )
        => ex[i].pc = "wait" ]_vars

\* C3: at most one exchange of a chat instance is in flight.
C3_OneExchangeInFlight == Len(Unfinished(ex)) <= 1

\* C4: when an exchange has failed after three failed attempts, the array
\* the caller handed in holds what it held at the call.
C4_HistoryUntouchedOnFailure ==
  \A e \in Exchanges :
    (e.pc = "thrown" /\ Len(e.observed) = 3) => history = e.called

\* C5: a finished exchange has either an envelope whose rawContent is the
\* non-empty text the last attempt extracted and no thrown error, or a
\* thrown error and no envelope; unless it returned, the caller's array
\* holds no more reply turns than at the call, and when it returned the
\* envelope's history ends with the one new reply turn.
C5_EnvelopeOrError ==
  \A e \in Exchanges :
    /\ (e.pc = "returned") =>
         /\ e.thrown = NoError
         /\ Len(e.envelope) = 1
         /\ DOMAIN e.envelope[1] = {"content", "rawContent", "reasoning", "history"}
         /\ e.envelope[1].rawContent # <<>>
         /\ e.observed[Len(e.observed)] = Outcome("ok", e.envelope[1].rawContent)
         /\ LET h == e.envelope[1].history
            IN  /\ h # <<>>
                /\ IsReply(h[Len(h)])
                /\ h[Len(h)].content = e.envelope[1].rawContent
    /\ (e.pc = "thrown") =>
         /\ e.thrown # NoError
         /\ e.envelope = <<>>
    /\ (e.pc # "returned") =>
         /\ e.envelope = <<>>
         /\ SelectSeq(history, IsReply) = SelectSeq(e.called, IsReply)
    /\ (e.envelope # <<>>) => e.pc = "returned"

C5_Witness ==
  /\ \E e \in Exchanges : e.pc = "thrown" /\ Len(e.observed) = 3
  /\ calls >= 2

C5_WitnessSuccess ==
  \E e \in Exchanges :
    /\ e.pc = "returned"
    /\ Len(e.observed) = 3
    /\ e.observed[1].kind = "No content"

\* the limit read at the call asks for no truncation of H plus the new turn
NoTruncationNeeded(e) ==
  e.historyLimit <= 0 \/ Len(e.called) + 1 <= e.historyLimit

\* C6: with no global context, no reasoning delimiter and a limit that asks
\* for no truncation, a returned envelope has rawContent equal to the
\* extracted reply r, empty reasoning, and history equal to H, then one user
\* turn holding the message, then one reply turn holding r.
C6_SuccessEnvelope ==
  \A e \in Exchanges :
    ( /\ e.pc = "returned"
      /\ Blank(e.globalContext)
      /\ e.reasoningEndTag = <<>>
      /\ NoTruncationNeeded(e) )
    => LET r == e.observed[Len(e.observed)].value
           env == e.envelope[1]
           n == Len(e.called)
       IN  /\ env.rawContent = r
           /\ env.reasoning = <<>>
           /\ Len(env.history) = n + 2
           /\ SubSeq(env.history, 1, n) = e.called
           /\ env.history[n + 1] = Turn("user", e.message)
           /\ IsReply(env.history[n + 2])
           /\ env.history[n + 2].content = r

C6_Witness ==
  \E e \in Exchanges :
    /\ e.pc = "returned"
    /\ Blank(e.globalContext)
    /\ e.reasoningEndTag = <<>>
    /\ e.historyLimit = 3
    /\ Len(e.called) = 2
    /\ e.envelope[1].rawContent = <<"t", "#", "r">>

\* what the History Manager contract asks of truncate(turns, maxLength)
ContractTruncate(turns, maxLength) ==
  IF Len(turns) <= maxLength THEN turns
  ELSE IF HasSystem(turns)
       THEN <<turns[FindSystem(turns)]>> \o LastN(SelectSeq(turns, NotSystem), maxLength - 1)
       ELSE LastN(turns, maxLength)

\* C7: for maxLength >= 1, truncateMessageHistory returns the turns
\* unchanged when there are at most maxLength of them, else the system turn
\* followed by the most recent maxLength - 1 other turns, or the most
\* recent maxLength turns when there is no system turn.
C7_TruncateContract ==
  (tState = "done" /\ tMax >= 1) => tResult = ContractTruncate(tTurns, tMax)

\* C8: a request built under a history limit L >= 1 carries at most L turns
\* of structured history.
C8_RequestHistoryBounded ==
  \A e \in Exchanges :
    (e.historyLimit >= 1) => Len(e.MessageHistory) <= e.historyLimit

\* C9: truncateMessageHistory called with maxLength <= 0 returns the turns
\* unchanged.
C9_NonPositiveLimitKeepsAll ==
  (tState = "done" /\ tMax <= 0) => tResult = tTurns

SystemTurns(messages) == SelectSeq(messages, IsSystem)

\* C10: with a non-blank global context g, the first exchange leaves a system
\* turn whose content contains g (a new first turn holding g when the
\* history had no system turn, else the existing turn with g put in front of
\* its content unless the content held g already); a later exchange leaves
\* the system turns exactly as it found them; and the history placed in the
\* request has that system turn, so the merge comes before truncation.
C10_GlobalContextMergedOnce ==
  \A e \in Exchanges :
    ~Blank(e.globalContext) =>
      LET g == e.globalContext
          H == e.called
      IN  /\ HasSystem(history)
          /\ Includes(history[FindSystem(history)].content, g)
          /\ HasSystem(e.MessageHistory)
          /\ e.MessageHistory[FindSystem(e.MessageHistory)]
               = history[FindSystem(history)]
          /\ (calls = 1 /\ ~HasSystem(H)) =>
               /\ history[1] = Turn("system", g)
               /\ SystemTurns(history) = <<Turn("system", g)>>
          /\ (calls = 1 /\ HasSystem(H)) =>
               /\ Len(SystemTurns(history)) = Len(SystemTurns(H))
               /\ LET old == H[FindSystem(H)].content
                      new == history[FindSystem(history)].content
                  IN  IF Includes(old, g) THEN new = old
                      ELSE new = g \o <<"\n", "\n">> \o old
          /\ (calls >= 2) => SystemTurns(history) = SystemTurns(H)

C10_Witness ==
  \E e \in Exchanges :
    /\ e.globalContext = <<"g">>
    /\ calls >= 2
    /\ e.pc = "returned"
    /\ history[1].content = <<"g", "\n", "\n", "s">>
    /\ Len(e.MessageHistory) < Len(e.called) + 1

C10_WitnessCreated ==
  \E e \in Exchanges :
    /\ e.globalContext = <<"g">>
    /\ calls >= 2
    /\ history[1] = Turn("system", <<"g">>)

\* the fallback text of chat.js line 662
Placeholder == <<"I", "'", "m", " ", "s", "o", "r", "r", "y">>

\* bodies in which the path meets a missing segment or ends at an empty or
\* undefined value
NothingAtPath == { "emptyContent", "noContent", "noMessage" }

\* C11: an attempt whose success response has nothing at the response path
\* is a failed attempt: no envelope comes of it, the exchange waits and
\* retries while fewer than 3 attempts were made and throws after the third;
\* a returned envelope carries the non-empty text of the body, and no reply
\* turn of the chat's history is empty or the fallback text.
C11_NothingAtPathIsRetried ==
  /\ \A e \in Exchanges :
       /\ (e.body \in NothingAtPath) =>
            /\ Failed(e.observed[Len(e.observed)])
            /\ e.envelope = <<>>
            /\ IF Len(e.observed) < 3
               THEN e.pc = "wait" \/ (e.pc = "fetch" /\ e.tries = Len(e.observed) + 1)
               ELSE e.pc = "thrown"
       /\ (e.pc = "returned") =>
            /\ e.body \in ResponseBodies \ NothingAtPath
            /\ e.envelope[1].rawContent = BodyOf(e.body).v.choices.v["0"].v.message.v.content.v
            /\ e.envelope[1].rawContent # <<>>
  /\ \A k \in 1..Len(history) :
       IsReply(history[k]) => history[k].content \notin {<<>>, Placeholder}

C11_Witness ==
  \E e \in Exchanges :
    /\ e.pc = "returned"
    /\ Len(e.observed) = 3
    /\ e.observed[1].kind = "No content"
    /\ e.observed[2].kind = "exception"
    /\ e.body = "reasoned"

\* C12: every context item attached to the chat when a message is accepted
\* has its content in the Context or the UserMessage variable of the request
\* built for that message, and is no turn of the request's MessageHistory.
C12_ContextItemsReachRequest ==
  \A e \in Exchanges :
    \A k \in 1..Len(e.contextItems) :
      /\ \/ Includes(e.Context, e.contextItems[k].content)
         \/ Includes(e.UserMessage, e.contextItems[k].content)
      /\ \A j \in 1..Len(e.MessageHistory) :
           e.MessageHistory[j].content # e.contextItems[k].content

\* the states of section 6: Sending is an attempt in flight, Retrying the wait
\* before the next attempt, Succeeded and Failed the two ends
StateOf(e) ==
  CASE e.pc = "fetch"    -> "Sending"
    [] e.pc = "wait"     -> "Retrying"
    [] e.pc = "returned" -> "Succeeded"
    [] e.pc = "thrown"   -> "Failed"

\* one step of one exchange, a to b, along Sending -> (Retrying -> Sending)*
\* -> Succeeded | Failed: Retrying only after a failed attempt, a new attempt
\* only out of Retrying, the ends final
StepOfStateMachine(a, b) ==
  \/ StateOf(a) = StateOf(b) /\ a.tries = b.tries
  \/ /\ StateOf(a) = "Sending" /\ StateOf(b) = "Retrying" /\ b.tries = a.tries
     /\ b.observed # <<>> /\ Failed(b.observed[Len(b.observed)])
  \/ StateOf(a) = "Retrying" /\ StateOf(b) = "Sending" /\ b.tries = a.tries + 1
  \/ StateOf(a) = "Sending" /\ StateOf(b) \in {"Succeeded", "Failed"} /\ b.tries = a.tries

\* C14: if every HTTP call settles, an exchange goes Idle -> Sending ->
\* (Retrying -> Sending)* and in the end reaches Succeeded or Failed, one of
\* them and for good; Retrying is entered only after a failed attempt, and no
\* attempt follows one whose reply was extracted.
C14_StateMachine ==
  /\ [][ calls' = calls =>
           \A i \in 1..Len(ex) : i <= Len(ex') /\ StepOfStateMachine(ex[i], ex'[i]) ]_vars
  /\ [](\A e \in Exchanges : e.tries >= 1)
  /\ [](\A e \in Exchanges : \A k \in 1..Len(e.observed) - 1 : Failed(e.observed[k]))
  /\ ((Unfinished(ex) # <<>>) ~> (Unfinished(ex) = <<>>))

\* the parts of C14 that hold: every exchange ends, its end is final, and no
\* attempt follows a reply that was extracted
C14_EndsAndStays ==
  /\ [][ calls' = calls =>
           \A i \in 1..Len(ex) :
             /\ i <= Len(ex')
             /\ Finished(ex[i]) => ex'[i] = ex[i] ]_vars
  /\ [](\A e \in Exchanges : \A k \in 1..Len(e.observed) - 1 : Failed(e.observed[k]))
  /\ ((Unfinished(ex) # <<>>) ~> (Unfinished(ex) = <<>>))

\* C15: a change of the settings while an exchange is in flight does not
\* reach it: its first request is built from the settings read at the call,
\* every later attempt sends the same URL, headers and body and reads the
\* reply at the same path, and the reasoning split uses the delimiter and
\* the display mode read at the call.
C15_SettingsReadAtCallStart ==
  \A e \in Exchanges :
    LET s == e.calledWith
    IN  /\ e.sent # <<>> =>
             /\ e.sent[1].url = <<s.https, s.textGenerationApiUrl>>
             /\ e.sent[1].headers = IF s.apiKey # "" THEN <<"Content-Type", "Authorization", s.apiKey>>
                                    ELSE <<"Content-Type">>
             /\ e.sent[1].body.payloadJson = s.payloadJson
             /\ e.sent[1].body.Model = s.models
             /\ e.sent[1].responseJsonPath = s.responseJsonPath
        /\ \A k \in 1..Len(e.resent) : e.resent[k]
        /\ e.pc = "returned" =>
             /\ e.envelope[1].reasoning = reasoning(e.envelope[1].rawContent, s.reasoningEndTag)
             /\ e.envelope[1].content =
                  formattedResponse(e.envelope[1].rawContent, s.reasoningEndTag, s.reasoningDisplay)

\* an exchange whose settings were changed while it was in flight, that made
\* a second attempt and came back with the reasoning split off
C15_Witness ==
  \E e \in Exchanges :
    /\ e.pc = "returned"
    /\ e.settingsChanged
    /\ settings # e.calledWith
    /\ Len(e.resent) >= 1
    /\ e.envelope[1].reasoning # <<>>

\* the roles of the data model
Roles == { "system", "user", "assistant" }

HasKnownRoles(turns) == \A k \in 1..Len(turns) : turns[k].role \in Roles

\* C16: every turn of the conversation history and every turn of the messages
\* sent in a request body has one of the roles system, user, assistant.
C16_RolesAreKnown ==
  /\ HasKnownRoles(history)
  /\ \A e \in Exchanges :
       /\ HasKnownRoles(e.MessageHistory)
       /\ e.sent # <<>> => HasKnownRoles(e.sent[1].body.messages)

\* C17: for a successful exchange the chat's history holds an assistant turn
\* whose content is the raw extracted reply, and no assistant turn of it holds
\* display markup.
C17_ChatKeepsRawReply ==
  /\ \A e \in Exchanges :
       e.pc = "returned" =>
         \E k \in 1..Len(history) :
           history[k] = Turn("assistant", e.envelope[1].rawContent)
  /\ \A k \in 1..Len(history) :
       history[k].role = "assistant" =>
         \A j \in 1..Len(history[k].content) : history[k].content[j] \notin MarkupTokens

\* C18: when the history passed to an exchange has a turn that is not a system
\* turn, the Context variable is the rendering of all its non-system turns in
\* order, one turn included.
C18_ContextRendersPriorTurns ==
  \A e \in Exchanges :
    LET prior == SelectSeq(e.called, NotSystem)
    IN  prior # <<>> =>
          e.Context = <<"Previous conversation:", "\n", "\n">> \o JoinTurns(prior)

\* C13: whatever the payload template is, a U+0000 in it or a filled text
\* that parses to null included, preparing the request does not fail: it ends
\* with a request body and no error reaches the caller.
C13_PreparationNeverFails ==
  pState # "template" => (pState = "ready" /\ payload # <<>>)

\* the slot "{{UserMessage}}" of a string member
StringSlot == <<"\"">> \o PlaceholderText("UserMessage") \o <<"\"">>

\* C19: filling the slot "{{X}}" with a string s and parsing the filled text
\* with the strict JSON parser gives back s.
C19_FillThenParseGivesValue ==
  (pState # "template" /\ payloadTemplate = StringSlot) =>
    JSONparse(filledTemplate) = Parsed(JString(replacements.UserMessage.v), <<>>)

\* the placeholder a text starts with, "" when it starts with none
PlaceholderAt(text) ==
  IF \E k \in 1..Len(Variables) : OccursAt(text, PlaceholderText(Variables[k]), 0)
  THEN text[3] ELSE ""

\* the template with every recognized placeholder written in it replaced by
\* its value, in one pass from left to right
RECURSIVE Substitute(_, _)
Substitute(text, values) ==
  IF text = <<>> THEN <<>>
  ELSE IF PlaceholderAt(text) # ""
       THEN ReplacementText(values[PlaceholderAt(text)])
              \o Substitute(SubSeq(text, 6, Len(text)), values)
       ELSE <<Head(text)>> \o Substitute(Tail(text), values)

\* C20: filling changes the recognized placeholders written in the template
\* and nothing else: each is replaced by its value, every other part, an
\* unrecognized {{...}} included, stays, and a template without placeholders
\* comes back unchanged.
C20_OnlyPlaceholdersChange ==
  (pState # "template" /\ ~Includes(payloadTemplate, <<"NUL">>)) =>
    filledTemplate = Substitute(payloadTemplate, replacements)

\* the filled text fails the strict parse and the parse after cleaning
BothParsesFail(filled) ==
  /\ ~JSONparse(Trim(filled)).ok
  /\ ~JSONparse(CleanedTemplate(Trim(filled))).ok

\* C21: when the filled template fails the strict parse and the parse after
\* the repair pass, the request body is the object with exactly the keys model
\* and messages, holding the model and the structured history, and no error
\* is raised.
C21_FallbackPayload ==
  (pState # "template" /\ ~Includes(payloadTemplate, <<"NUL">>)
     /\ BothParsesFail(filledTemplate)) =>
    /\ pState = "ready"
    /\ Len(payload) = 1
    /\ payload[1].t = "object"
    /\ Len(payload[1].members) = 2
    /\ payload[1].members[1] = <<<<"model">>, replacements.Model>>
    /\ payload[1].members[2] = <<<<"messages">>, replacements.MessageHistory>>

\* a template with an unrecognized placeholder outside any string, filled
C21_Witness ==
  /\ pState = "ready"
  /\ payloadTemplate = PlaceholderText("X") \o PlaceholderText("UserMessage")
  /\ replacements.UserMessage.v = <<"a", "\"">>
  /\ BothParsesFail(filledTemplate)

\* C22: a template that is valid JSON but for a line break written inside a
\* string value fails the strict parse and parses after the repair pass, to
\* the same members with the line break kept in the value.
C22_NewlineRepaired ==
  (pState # "template" /\ payloadTemplate = NewlineTemplate) =>
    /\ ~JSONparse(Trim(filledTemplate)).ok
    /\ pState = "ready"
    /\ payload = << JMembers(<< <<<<"model">>, replacements.Model>>,
                                <<<<"prompt">>, JString(<<"a", "\n", "b">>)>> >>) >>

\* the text of r before the first occurrence of d, and the text after it
BeforeFirst(r, d) == SubSeq(r, 1, IndexOf(r, d))
AfterFirst(r, d) == SubSeq(r, IndexOf(r, d) + Len(d) + 1, Len(r))

\* text ends with the given ending
EndsWith(text, ending) ==
  /\ Len(ending) <= Len(text)
  /\ SubSeq(text, Len(text) - Len(ending) + 1, Len(text)) = ending

\* C23: when a non-blank delimiter d occurs in the reply r, reasoning is the
\* trimmed text of r before the first d, and the answer is the trimmed text
\* of r after that first d, later occurrences of d kept where they are.
C23_SplitAtFirstDelimiter ==
  \A e \in Exchanges :
    (e.pc = "returned" /\ ~Blank(e.reasoningEndTag)
       /\ Includes(e.envelope[1].rawContent, e.reasoningEndTag)) =>
      LET r == e.envelope[1].rawContent
          d == e.reasoningEndTag
      IN  /\ e.envelope[1].reasoning = Trim(BeforeFirst(r, d))
          /\ IF e.reasoningDisplay = "hide"
             THEN e.envelope[1].content = Trim(AfterFirst(r, d))
             ELSE EndsWith(e.envelope[1].content, <<"<response>">> \o Trim(AfterFirst(r, d)))

\* a reply with the delimiter twice and blanks around the parts
C23_Witness ==
  \E e \in Exchanges :
    /\ e.pc = "returned"
    /\ e.reasoningEndTag = <<"#">>
    /\ e.reasoningDisplay = "hide"
    /\ e.envelope[1].rawContent = <<"t", " ", "#", "#">>
    /\ e.envelope[1].reasoning = <<"t">>
    /\ e.envelope[1].content = <<"#">>

\* C24: when the delimiter is empty or does not occur in the reply, reasoning
\* is empty and the content is the reply unchanged, whatever the display mode.
C24_NoDelimiterNoSplit ==
  \A e \in Exchanges :
    (e.pc = "returned"
       /\ (e.reasoningEndTag = <<>> \/ ~Includes(e.envelope[1].rawContent, e.reasoningEndTag))) =>
      /\ e.envelope[1].reasoning = <<>>
      /\ e.envelope[1].content = e.envelope[1].rawContent

\* a delimiter is set, the reply has none, the display would show reasoning
C24_Witness ==
  \E e \in Exchanges :
    /\ e.pc = "returned"
    /\ e.reasoningEndTag = <<"#", "#">>
    /\ e.reasoningDisplay = "show"
    /\ e.envelope[1].rawContent = <<" ", "t", "#", " ">>

\* how many turns of a history satisfy a test
UserTurns(turns) == Len(SelectSeq(turns, LAMBDA m : m.role = "user"))
ReplyTurns(turns) == Len(SelectSeq(turns, IsReply))

\* the chat accepts a message in this step
Accepts == calls' = calls + 1 /\ ~processing

\* an exchange of the chat comes back with a reply in this step
Returns ==
  /\ calls' = calls
  /\ \E i \in 1..Len(ex) : i <= Len(ex') /\ ex[i].pc # "returned" /\ ex'[i].pc = "returned"

\* C25: each message the chat accepts adds one user turn to the chat's
\* history, each successful exchange adds one reply turn, and nothing else
\* adds a turn.
C25_OneTurnPerMessageAndReply ==
  [][ /\ UserTurns(history') = UserTurns(history) + (IF Accepts THEN 1 ELSE 0)
      /\ ReplyTurns(history') = ReplyTurns(history) + (IF Returns THEN 1 ELSE 0) ]_vars

\* C26: the processing flag is set exactly while an exchange the chat
\* accepted is outstanding.
C26_ProcessingWhileOutstanding ==
  processing <=> (\E e \in Exchanges : InFlight(e))

\* C27: once an exchange of the chat has finished, its "Thinking..."
\* indicator is not in the chat window and cannot appear any more: the timer
\* has been cleared or the message removed.
C27_NoIndicatorAfterFinish ==
  \A e \in Exchanges :
    (Finished(e) /\ e.thinking # "none") => e.thinking \in {"cancelled", "removed"}

Pair(item) == <<item.id, item.type>>
UniquePairs(items) ==
  \A j, k \in 1..Len(items) : Pair(items[j]) = Pair(items[k]) => j = k
Holds(items, item) == \E k \in 1..Len(items) : Pair(items[k]) = Pair(item)
WithoutPair(items, item) == SelectSeq(items, LAMBDA x : Pair(x) # Pair(item))

\* C28: the context items of a chat never hold the same (id, type) pair
\* twice; addContext with a pair already held replaces that item where it
\* stands and keeps the count, addContext with a new pair appends one item,
\* removeContext drops exactly the item with the pair and changes nothing
\* when no item has it.
C28_ContextPairsUnique ==
  /\ UniquePairs(contextItems)
  /\ \A item \in ContextItemsTried :
       LET added   == addContext(contextItems, item)
           removed == removeContext(contextItems, item.id, item.type)
       IN  /\ UniquePairs(added)
           /\ Holds(contextItems, item) =>
                /\ Len(added) = Len(contextItems)
                /\ \A k \in 1..Len(added) :
                     added[k] = IF Pair(contextItems[k]) = Pair(item) THEN item ELSE contextItems[k]
           /\ ~Holds(contextItems, item) =>
                /\ added = contextItems \o <<item>>
                /\ removed = contextItems
           /\ Holds(contextItems, item) =>
                /\ Len(removed) = Len(contextItems) - 1
                /\ removed = WithoutPair(contextItems, item)
           /\ UniquePairs(removed)
\* the journal entry was added, then the page, then the edited journal entry:
\* it stands first, with its new content
C28_Witness ==
  contextItems = << ContextItem("j1", "journal", <<"d">>), ContextItem("p1", "page", <<"e">>) >>

Registered == { instances[id] : id \in DOMAIN instances }
OpenReturns == opens' = opens + 1
AskedId == IF lastOpen'.options.id # NoId THEN lastOpen'.options.id ELSE "default"

\* C29: the registry holds each chat under the chat's own id, and no chat
\* object under two ids; no step takes a chat out of the registry, replaces
\* it by another object or changes its history; an openChat call by a user
\* with permission returns the chat registered under the id asked for, which
\* is the chat that was there before the call when there was one; an openChat
\* call by a user without permission returns null and leaves the registry as
\* it was.
C29_OneChatPerId ==
  [][ /\ \A id \in DOMAIN instances' : instances'[id].id = id
      /\ \A j, k \in DOMAIN instances' :
           instances'[j].object = instances'[k].object => j = k
      /\ \A id \in DOMAIN instances :
           /\ id \in DOMAIN instances'
           /\ instances'[id].object = instances[id].object
           /\ instances'[id].history = instances[id].history
      /\ OpenReturns =>
           IF hasPermission(lastOpen'.user)
           THEN /\ AskedId \in DOMAIN instances'
                /\ lastOpen'.returned = Ref(instances'[AskedId].object)
                /\ lastOpen'.returned # Null
           ELSE /\ lastOpen'.returned = Null
                /\ instances' = instances ]_vars
\* the chat "a" was opened with a history, closed, and opened again with
\* other options: the call returned the first object, history intact
C29_Witness ==
  /\ "a" \in DOMAIN instances
  /\ objects = 1
  /\ opens >= 2
  /\ lastOpen.options = [id |-> "a", history |-> <<>>]
  /\ lastOpen.returned = Ref(1)
  /\ instances["a"].history = <<Turn("user", <<"a">>)>>
  /\ instances["a"].visible

\* C30: text put in for a placeholder is not scanned for placeholders: when
\* the template holds {{UserMessage}} and the user's message holds the text
\* {{Context}}, the filled template holds the text {{Context}} as the user
\* wrote it.
C30_InsertedTextNotRescanned ==
  ( /\ pState # "template"
    /\ ~Includes(payloadTemplate, <<"NUL">>)
    /\ Includes(payloadTemplate, PlaceholderText("UserMessage"))
    /\ Includes(replacements.UserMessage.v, PlaceholderText("Context")) ) =>
    Includes(filledTemplate, PlaceholderText("Context"))

====
